---- MODULE Spec2Model ----
(***************************************************************************)
(* Model of lstm/datasets.py: the rolling-window TimeseriesDataset and the *)
(* PowerConsumptionDataModule that loads, splits and scales the table.     *)
(*                                                                         *)
(* Numbers.  A cleaned row is <<Confirmed, Deaths>> (the two columns left  *)
(* after the drop of line 144).  A float64 of the target column is the     *)
(* record [nan, v]; a standardized value (x - mean)/scale is kept exactly  *)
(* as [num, den2], the value num / sqrt(den2); a float32 tensor element is *)
(* the record [f32 |-> v] of the value it was converted from.              *)
(***************************************************************************)
EXTENDS Integers, Sequences, FiniteSets, TLC

\* ------------------------------------------------------------------ bounds
MaxLen == 4        \* tables of up to MaxLen rows are enumerated over all rows
MaxRows == 8       \* one patterned table for each longer length up to MaxRows
MaxSplitRows == 24 \* and up to MaxSplitRows, these with the default seq_len
MaxSeqLen == 2     \* seq_len is drawn from -1 .. MaxSeqLen
IdxMargin == 1     \* __getitem__ is tried from -(L+IdxMargin) to L+IdxMargin

\* ------------------------------------------------------- program constants
TestPct == 10      \* test_size=0.10
ValPct == 5        \* test_size=0.05

DefaultSeqLen == 1 \* seq_len = 1
Rows == {<<1, 0>>, <<2, 1>>}   \* the rows <<Confirmed, Deaths>> enumerated
DEATHS == 2        \* position of column 'Deaths' in a cleaned row
NCols == 2

Stages == {"fit", "test", "None"}
Arrays == {"X_train", "y_train", "X_val", "y_val", "X_test", "y_test"}

\* ------------------------------------------------------------ Python values
\* An attribute of the module: never assigned, None, or an array.
Unset == [state |-> "unset", v |-> <<>>]
None == [state |-> "None", v |-> <<>>]
Array(a) == [state |-> "array", v |-> a]

NaN == [nan |-> TRUE, v |-> 0]
Float64(n) == [nan |-> FALSE, v |-> n]

Max(S) == CHOOSE m \in S : \A k \in S : k <= m

RECURSIVE SumSeq(_)
SumSeq(s) == IF s = <<>> THEN 0 ELSE Head(s) + SumSeq(Tail(s))

Column(X, c) == [i \in 1..Len(X) |-> X[i][c]]

\* ---------------------------------------------------------------- pandas
\* shift(1) in place of shift(-1)
shift_forward(s) == [i \in 1..Len(s) |-> IF i > 1 THEN Float64(s[i - 1]) ELSE NaN]

\* Series.shift(-1): row i takes the value of row i+1, the last row NaN.
shift(s) == [i \in 1..Len(s) |-> IF i < Len(s) THEN Float64(s[i + 1]) ELSE NaN]

\* Series.ffill(): a NaN takes the nearest preceding non-NaN value, if any.
ffill(s) ==
  [i \in 1..Len(s) |->
     LET before == {j \in 1..i : ~s[j].nan}
     IN  IF before = {} THEN s[i] ELSE s[Max(before)]]

\* y = X['Deaths'].shift(-1).ffill()
TargetVector(X) == ffill(shift(Column(X, DEATHS)))

\* --------------------------------------------------------------- sklearn
\* ceil(test_size * n_samples) for test_size = pct/100
NTest(n, pct) == (n * pct + 99) \div 100

\* train_test_split(X, y, test_size=pct/100, shuffle=False): the first
\* n - n_test rows are the train part, the last n_test rows the test part;
\* an empty train part raises ValueError.
SplitRaises(n, pct) == n - NTest(n, pct) <= 0

SplitTrain(s, pct) == SubSeq(s, 1, Len(s) - NTest(Len(s), pct))

\* the test part starting one row early
SplitTest_overlap(s, pct) == SubSeq(s, Len(s) - NTest(Len(s), pct), Len(s))

SplitTest(s, pct) == SubSeq(s, Len(s) - NTest(Len(s), pct) + 1, Len(s))

\* StandardScaler().fit(X): per column the count, the sum and the sum of
\* squares, which determine mean_ = sum/n and var_ = (n*sumsq - sum^2)/n^2.
Fit(X) ==
  [n |-> Len(X),
   sum |-> [c \in 1..NCols |-> SumSeq(Column(X, c))],
   sumsq |-> [c \in 1..NCols |-> SumSeq([i \in 1..Len(X) |-> X[i][c] * X[i][c]])]]

\* (x - mean_) / scale_, scale_ = sqrt(var_), or 1 where var_ = 0:
\*   (n*x - sum) / sqrt(n*sumsq - sum^2), or (n*x - sum) / n where var_ = 0.
Scale(p, c, x) ==
  LET nvar == p.n * p.sumsq[c] - p.sum[c] * p.sum[c]
  IN  [num |-> p.n * x - p.sum[c],
       den2 |-> IF nvar = 0 THEN p.n * p.n ELSE nvar]

\* StandardScaler.transform(X)
Transform(p, X) == [i \in 1..Len(X) |-> [c \in 1..NCols |-> Scale(p, c, X[i][c])]]

\* Series.values.reshape((-1, 1)): a column vector, one 1-element row per value
Reshape(y) == [i \in 1..Len(y) |-> <<y[i]>>]

\* ----------------------------------------------------------------- torch
\* torch.tensor(a).float() of a 2-D array: every element becomes a float32.
Tensor(a) == [i \in 1..Len(a) |-> [c \in 1..Len(a[i]) |-> [f32 |-> a[i][c]]]]

\* Bound of a slice a[start:stop] on a first axis of length L.
SliceBound(k, L) ==
  IF k < 0 THEN (IF k + L < 0 THEN 0 ELSE k + L) ELSE (IF k > L THEN L ELSE k)

\* a[start:stop]: never raises, clips to the rows that exist.
Slice(a, start, stop) ==
  LET lo == SliceBound(start, Len(a))
      hi == SliceBound(stop, Len(a))
  IN  IF lo < hi THEN SubSeq(a, lo + 1, hi) ELSE <<>>

\* a[k] raises IndexError unless -L <= k < L; a negative k counts from the end.
IndexRaises(a, k) == k >= Len(a) \/ k < 0 - Len(a)

Index(a, k) == IF k < 0 THEN a[k + Len(a) + 1] ELSE a[k + 1]

\* ---------------------------------------------------- TimeseriesDataset
NoDataset == [some |-> FALSE, X |-> <<>>, y |-> <<>>, seq_len |-> 0]

\* TimeseriesDataset.__init__
TimeseriesDataset(X, y, seq_len) ==
  [some |-> TRUE, X |-> Tensor(X), y |-> Tensor(y), seq_len |-> seq_len]

\* seq_len subtracted whole
len_short(self) == Len(self.X) - self.seq_len

\* TimeseriesDataset.__len__
__len__(self) == Len(self.X) - (self.seq_len - 1)

\* the target taken at the window's first row
getitem_first_row(self, index) ==
  IF IndexRaises(self.y, index)
  THEN [exc |-> "IndexError", x |-> <<>>, y |-> <<>>]
  ELSE [exc |-> "none",
        x |-> Slice(self.X, index, index + self.seq_len),
        y |-> Index(self.y, index)]

\* TimeseriesDataset.__getitem__: the slice of X, then the element of y.
__getitem__(self, index) ==
  IF IndexRaises(self.y, index + self.seq_len - 1)
  THEN [exc |-> "IndexError", x |-> <<>>, y |-> <<>>]
  ELSE [exc |-> "none",
        x |-> Slice(self.X, index, index + self.seq_len),
        y |-> Index(self.y, index + self.seq_len - 1)]

\* ------------------------------------------- PowerConsumptionDataModule
\* The inputs: the cleaned table X = df.dropna() and the constructor's seq_len.
PatternRow(i) ==
  IF i % 3 = 1 THEN <<1, 0>> ELSE IF i % 3 = 2 THEN <<2, 0>> ELSE <<2, 1>>

SmallTables == UNION {[1..n -> Rows] : n \in 0..MaxLen}

LongTable(n) == [i \in 1..n |-> PatternRow(i)]

SeqLens == (0 - 1)..MaxSeqLen

\* The pairs <<table, seq_len>> a run starts from.
Inputs ==
  ((SmallTables \cup {LongTable(n) : n \in (MaxLen + 1)..MaxRows}) \X SeqLens)
  \cup ({LongTable(n) : n \in (MaxRows + 1)..MaxSplitRows} \X {DefaultSeqLen})

Tables == {in[1] : in \in Inputs}

VARIABLES
  table,          \* the cleaned table read from the file
  seq_len,        \* self.seq_len
  X_train, y_train, X_val, y_val, X_test, y_test,   \* the cached arrays
  columns,        \* self.columns
  y,              \* local y of the last run of setup's body
  preprocessing,  \* local StandardScaler of the last run of setup's body
  dataset,        \* the TimeseriesDataset of the last dataloader built
  ret,            \* the last call and what it returned or raised
  writes,         \* how many times each cached array was assigned
  ran             \* the stages whose setup body ran to its end

arrays == <<X_train, y_train, X_val, y_val, X_test, y_test>>

vars == <<table, seq_len, X_train, y_train, X_val, y_val, X_test, y_test,
          columns, y, preprocessing, dataset, ret, writes, ran>>

NoScaler == [fitted |-> FALSE, p |-> Fit(<<>>)]

Ret(op, stage, index, exc, len, x, t) ==
  [op |-> op, stage |-> stage, index |-> index, exc |-> exc, len |-> len,
   x |-> x, y |-> t]

Returned(op) == Ret(op, "", 0, "none", 0, <<>>, <<>>)

Raised(op, exc) == Ret(op, "", 0, exc, 0, <<>>, <<>>)

\* PowerConsumptionDataModule.__init__: y_test is never assigned there.
Init ==
  /\ \E in \in Inputs : table = in[1] /\ seq_len = in[2]
  /\ X_train = None /\ y_train = None
  /\ X_val = None /\ y_val = None
  /\ X_test = None /\ y_test = Unset
  /\ columns = None
  /\ y = None
  /\ preprocessing = NoScaler
  /\ dataset = NoDataset
  /\ ret = Returned("__init__")
  /\ writes = [a \in Arrays |-> 0]
  /\ ran = {}

\* the guards without the one for 'fit'
ReturnsEarly_no_fit(stage, xtrain, xtest) ==
  \/ stage = "test" /\ xtest.state # "None"
  \/ stage = "None" /\ xtrain.state # "None" /\ xtest.state # "None"

\* The three guards at the top of setup.
ReturnsEarly(stage, xtrain, xtest) ==
  \/ stage = "fit" /\ xtrain.state # "None"
  \/ stage = "test" /\ xtest.state # "None"
  \/ stage = "None" /\ xtrain.state # "None" /\ xtest.state # "None"

\* the scaler fitted on X_cv, the train and validation rows
FitRows_cv(xtrain, xval, xtest) == xtrain \o xval

\* What preprocessing.fit is given.
FitRows(xtrain, xval, xtest) == xtrain

\* The branches that store the arrays.
StoresFit(stage) == stage = "fit" \/ stage = "None"

StoresTest(stage) == stage = "test" \/ stage = "None"

\* Either train_test_split of setup raises ValueError on a table of too few rows.
PipelineRaises(X) ==
  \/ SplitRaises(Len(X), TestPct)
  \/ SplitRaises(Len(SplitTrain(X, TestPct)), ValPct)

\* The body of setup on a table X, after the guards and the read of the file.
Pipeline(X) ==
  LET t == TargetVector(X)
      X_cv == SplitTrain(X, TestPct)
      y_cv == SplitTrain(t, TestPct)
      Xtr == SplitTrain(X_cv, ValPct)
      Xva == SplitTest(X_cv, ValPct)
      Xte == SplitTest(X, TestPct)
      p == Fit(FitRows(Xtr, Xva, Xte))
  IN  IF PipelineRaises(X)
      THEN [exc |-> "ValueError", y |-> t, p |-> Fit(<<>>),
            X_train |-> <<>>, y_train |-> <<>>, X_val |-> <<>>, y_val |-> <<>>,
            X_test |-> <<>>, y_test |-> <<>>]
      ELSE [exc |-> "none", y |-> t, p |-> p,
            X_train |-> Transform(p, Xtr),
            y_train |-> Reshape(SplitTrain(y_cv, ValPct)),
            X_val |-> Transform(p, Xva),
            y_val |-> Reshape(SplitTest(y_cv, ValPct)),
            X_test |-> Transform(p, Xte),
            y_test |-> Reshape(SplitTest(t, TestPct))]

Wrote(S) == [a \in Arrays |-> IF a \in S THEN writes[a] + 1 ELSE writes[a]]

\* PowerConsumptionDataModule.setup
setup(stage) ==
  /\ ret' = Ret("setup", stage, 0,
                IF ReturnsEarly(stage, X_train, X_test) \/ ~PipelineRaises(table)
                THEN "none" ELSE "ValueError", 0, <<>>, <<>>)
  /\ IF ReturnsEarly(stage, X_train, X_test)
     THEN UNCHANGED <<arrays, columns, y, preprocessing, writes, ran>>
     ELSE \E r \in {Pipeline(table)} :
              /\ y' = Array(r.y)
              /\ columns' = Array(<<"Confirmed", "Deaths">>)
              /\ IF r.exc # "none"
                 THEN UNCHANGED <<arrays, preprocessing, writes, ran>>
                 ELSE /\ preprocessing' = [fitted |-> TRUE, p |-> r.p]
                      /\ IF StoresFit(stage)
                         THEN /\ X_train' = Array(r.X_train)
                              /\ y_train' = Array(r.y_train)
                              /\ X_val' = Array(r.X_val)
                              /\ y_val' = Array(r.y_val)
                         ELSE UNCHANGED <<X_train, y_train, X_val, y_val>>
                      /\ IF StoresTest(stage)
                         THEN /\ X_test' = Array(r.X_test)
                              /\ y_test' = Array(r.y_test)
                         ELSE UNCHANGED <<X_test, y_test>>
                      /\ writes' = Wrote(
                           (IF StoresFit(stage)
                            THEN {"X_train", "y_train", "X_val", "y_val"} ELSE {})
                           \cup
                           (IF StoresTest(stage) THEN {"X_test", "y_test"} ELSE {}))
                      /\ ran' = ran \cup {stage}
  /\ UNCHANGED <<table, seq_len, dataset>>

\* None taken for an empty array
BuildRaises_lenient(X, t) ==
  IF X.state = "unset" \/ t.state = "unset" THEN "AttributeError" ELSE "none"

\* Building TimeseriesDataset(X, y, seq_len) from two attributes: reading an
\* attribute that was never assigned raises AttributeError, and torch.tensor
\* of None raises RuntimeError.
BuildRaises(X, t) ==
  IF X.state = "unset" \/ t.state = "unset" THEN "AttributeError"
  ELSE IF X.state = "None" \/ t.state = "None" THEN "RuntimeError"
  ELSE "none"

dataloader(op, X, t) ==
  /\ ret' = Raised(op, BuildRaises(X, t))
  /\ dataset' = IF BuildRaises(X, t) = "none"
                THEN TimeseriesDataset(X.v, t.v, seq_len)
                ELSE dataset
  /\ UNCHANGED <<table, seq_len, arrays, columns, y, preprocessing, writes, ran>>

train_dataloader == dataloader("train_dataloader", X_train, y_train)

val_dataloader == dataloader("val_dataloader", X_val, y_val)

test_dataloader == dataloader("test_dataloader", X_test, y_test)

\* len of the dataset a dataloader holds
call_len ==
  /\ dataset.some
  /\ ret' = Ret("__len__", "", 0, "none", __len__(dataset), <<>>, <<>>)
  /\ UNCHANGED <<table, seq_len, arrays, columns, y, preprocessing, dataset,
                 writes, ran>>

Indices == (0 - Len(dataset.X) - IdxMargin)..(Len(dataset.X) + IdxMargin)

\* dataset[index]
call_getitem(index) ==
  /\ dataset.some
  /\ LET r == __getitem__(dataset, index)
     IN  ret' = Ret("__getitem__", "", index, r.exc, 0, r.x, r.y)
  /\ UNCHANGED <<table, seq_len, arrays, columns, y, preprocessing, dataset,
                 writes, ran>>

Next ==
  \/ \E stage \in Stages : setup(stage)
  \/ train_dataloader
  \/ val_dataloader
  \/ test_dataloader
  \/ call_len
  \/ \E index \in Indices : call_getitem(index)

Spec == Init /\ [][Next]_vars

\* ================================================================ claims
ValidSeqLen(ds) == 1 <= ds.seq_len /\ ds.seq_len <= Len(ds.X)

\* C1: for 1 <= seq_len <= L, __len__ returns L - seq_len + 1, which is the
\* number of start positions whose seq_len rows all exist, and L - seq_len is
\* the last index __getitem__ accepts.
C1_Length ==
  (ret.op = "__len__" /\ ValidSeqLen(dataset)) =>
    LET L == Len(dataset.X)
        s == dataset.seq_len
    IN  /\ ret.len = L - s + 1
        /\ ret.len = Cardinality({i \in 0..L : i + s <= L})
        /\ __getitem__(dataset, L - s).exc = "none"
        /\ Len(__getitem__(dataset, L - s).x) = s
        /\ __getitem__(dataset, L - s + 1).exc = "IndexError"

C1_Witness ==
  /\ ret.op = "__len__"
  /\ dataset.seq_len = 2
  /\ Len(dataset.X) >= 3
  /\ ret.len = Len(dataset.X) - 1

\* C2: for seq_len >= 1 and 0 <= i < length(), item(i) returns the seq_len
\* rows i .. i+seq_len-1 of the feature matrix and the target of row
\* i+seq_len-1 (rows counted from 0); with seq_len = 1 that is one row and the
\* target of that same row.
C2_Item ==
  (/\ ret.op = "__getitem__"
   /\ dataset.seq_len >= 1
   /\ 0 <= ret.index
   /\ ret.index < __len__(dataset)) =>
    /\ ret.exc = "none"
    /\ Len(ret.x) = dataset.seq_len
    /\ \A k \in 1..dataset.seq_len : ret.x[k] = dataset.X[ret.index + k]
    /\ ret.y = dataset.y[ret.index + dataset.seq_len]

C2_Witness ==
  /\ ret.op = "__getitem__"
  /\ dataset.seq_len = 2
  /\ ret.index = 1
  /\ ret.exc = "none"
  /\ Len(ret.x) = 2
  /\ dataset.y[2] # dataset.y[3]

\* C3: item(i) raises IndexError for every i outside [0, length()), negative
\* i included.
C3_OutOfRange ==
  (/\ ret.op = "__getitem__"
   /\ ValidSeqLen(dataset)
   /\ (ret.index < 0 \/ ret.index >= __len__(dataset))) =>
    ret.exc = "IndexError"

\* C4: a dataset never reports a length that is zero, negative or greater
\* than its row count L (a seq_len that is non-positive or exceeds L is
\* rejected before a dataset is used).
C4_Guarded ==
  ret.op = "__len__" => (1 <= ret.len /\ ret.len <= Len(dataset.X))

RowIndex(n) == [i \in 1..n |-> i]

AllCached ==
  /\ X_train.state = "array" /\ y_train.state = "array"
  /\ X_val.state = "array" /\ y_val.state = "array"
  /\ X_test.state = "array" /\ y_test.state = "array"

\* C5: once train, validation and test are cached, they are consecutive runs
\* of the cleaned table: the row indices of train, validation and test,
\* concatenated in that order, are 1..n, and so are the cached feature and
\* target arrays the rows of the table in their order.
C5_Split ==
  AllCached =>
    LET idx == RowIndex(Len(table))
        cv == SplitTrain(idx, TestPct)
        tr == SplitTrain(cv, ValPct)
        va == SplitTest(cv, ValPct)
        te == SplitTest(idx, TestPct)
    IN  /\ tr \o va \o te = idx
        /\ Len(X_train.v) = Len(tr) /\ Len(X_val.v) = Len(va)
        /\ Len(X_test.v) = Len(te)
        /\ Len(y_train.v) = Len(tr) /\ Len(y_val.v) = Len(va)
        /\ Len(y_test.v) = Len(te)
        /\ X_train.v \o X_val.v \o X_test.v = Transform(preprocessing.p, table)
        /\ y_train.v \o y_val.v \o y_test.v = Reshape(y.v)

C5_Witness ==
  /\ AllCached
  /\ Len(X_val.v) >= 2
  /\ Len(X_test.v) >= 3
  /\ Len(X_train.v) + Len(X_val.v) + Len(X_test.v) = Len(table)

Present(stage) ==
  CASE stage = "fit" -> X_train.state = "array" /\ X_val.state = "array"
    [] stage = "test" -> X_test.state = "array"
    [] stage = "None" -> /\ X_train.state = "array" /\ X_val.state = "array"
                         /\ X_test.state = "array"

\* C6: a setup call for a stage whose arrays are present changes no cached
\* array and assigns none.
C6_Idempotent ==
  [][\A stage \in Stages :
       (Present(stage) /\ setup(stage)) =>
         UNCHANGED <<arrays, writes, columns, y, preprocessing>>]_vars

\* A second setup(None): a dataset exists, so a dataloader was built after the
\* arrays were cached, every array was assigned once, and the last call is
\* setup(None).
C6_Witness ==
  /\ ret.op = "setup" /\ ret.stage = "None" /\ ret.exc = "none"
  /\ dataset.some
  /\ \A a \in Arrays : writes[a] = 1
  /\ ran = {"None"}

\* C7: a dataloader built before setup ran for its stage raises and leaves
\* the arrays uninitialised: train_dataloader and val_dataloader return only
\* after setup('fit') or setup(None) ran, test_dataloader only after
\* setup('test') or setup(None).
C7_NotInitialized ==
  /\ (ret.op \in {"train_dataloader", "val_dataloader"} /\ ret.exc = "none")
       => ran \cap {"fit", "None"} # {}
  /\ (ret.op = "test_dataloader" /\ ret.exc = "none")
       => ran \cap {"test", "None"} # {}
  /\ (ret.op \in {"train_dataloader", "val_dataloader"} /\ ret.exc # "none")
       => (X_train.state = "None" /\ X_val.state = "None")
  /\ (ret.op = "test_dataloader" /\ ret.exc # "none")
       => X_test.state = "None"

C7_Witness ==
  /\ ret.op = "test_dataloader"
  /\ ret.exc # "none"
  /\ ran = {"fit"}

TrainRows(t) == SplitTrain(SplitTrain(t, TestPct), ValPct)

ValRows(t) == SplitTest(SplitTrain(t, TestPct), ValPct)

TestRows(t) == SplitTest(t, TestPct)

AgreeOnTrain(t1, t2) == Len(t1) = Len(t2) /\ TrainRows(t1) = TrainRows(t2)

\* C8: the fitted scaler is the one fitted on the train rows alone, every
\* table with the same train rows gives the same scaler and the same
\* transformed train matrix, and that one scaler transforms all three splits.
C8_TrainOnly ==
  preprocessing.fitted =>
    /\ preprocessing.p = Fit(TrainRows(table))
    /\ \A t2 \in Tables :
         AgreeOnTrain(table, t2) =>
           /\ Pipeline(t2).p = preprocessing.p
           /\ X_train.state = "array" => Pipeline(t2).X_train = X_train.v
    /\ X_train.state = "array" =>
         /\ X_train.v = Transform(preprocessing.p, TrainRows(table))
         /\ X_val.v = Transform(preprocessing.p, ValRows(table))
    /\ X_test.state = "array" =>
         X_test.v = Transform(preprocessing.p, TestRows(table))

C8_Witness ==
  /\ preprocessing.fitted
  /\ AllCached
  /\ \E t2 \in Tables :
       /\ AgreeOnTrain(table, t2)
       /\ ValRows(t2) # ValRows(table)
       /\ TestRows(t2) # TestRows(table)

TargetOf(n) ==
  /\ Len(y.v) = n
  /\ \A i \in 1..(n - 1) : y.v[i] = Float64(table[i + 1][DEATHS])
  /\ n >= 2 => y.v[n] = y.v[n - 1]
  /\ \A i \in 1..n : ~y.v[i].nan
  /\ ffill(shift(<<10, 12, 15, 15>>))
       = <<Float64(12), Float64(15), Float64(15), Float64(15)>>

\* C9 as stated: for every non-empty table the target of row i is the Deaths
\* of row i+1, the last target repeats the one before it, and none is missing.
C9_Original ==
  (y.state = "array" /\ Len(table) >= 1) => TargetOf(Len(table))

\* C9: for every table of at least two rows the target of row i is the
\* Deaths of row i+1, the last target repeats the one before it, and none is
\* missing; Deaths 10, 12, 15, 15 give the targets 12, 15, 15, 15.
C9_Target ==
  (y.state = "array" /\ Len(table) >= 2) => TargetOf(Len(table))

C9_Witness ==
  /\ y.state = "array"
  /\ Len(table) >= 3
  /\ table[1][DEATHS] # table[2][DEATHS]
  /\ table[2][DEATHS] # table[3][DEATHS]
  /\ y.v[1] = Float64(table[2][DEATHS])

\* C10: over every sequence of setup calls, each cached array is assigned at
\* most once.
C10_WriteOnce == \A a \in Arrays : writes[a] <= 1

====
